---- MODULE Spec2Model ----
(***************************************************************************)
(* State-machine model of server.js (JanMitra civic issue server):         *)
(* the issue intake pipeline (POST /api/report), the query endpoints       *)
(* (GET /api/reports, GET /api/count) and the chat endpoint                *)
(* (POST /api/chat) together with the SQLite table, the uploads directory  *)
(* and the wall clock they share.                                          *)
(*                                                                         *)
(* Text is modelled as sequences of one-character strings so that          *)
(* toLowerCase, includes and number/string conversion are computed the way *)
(* the JavaScript runtime computes them.  Non-ASCII glyphs of the fixed    *)
(* reply texts are written as ASCII tags ("(wave)", "(siren)", "(warn)").  *)
(***************************************************************************)
EXTENDS Integers, Sequences, FiniteSets, TLC

-----------------------------------------------------------------------------
(* Bounds of the model *)

NumReq == 2        \* request slots that may be in flight concurrently
MaxIssues == 2     \* rows the issues table may grow by
MaxClock == 2      \* wall-clock ticks the model lets pass
TicksPerSecond == 2 \* clock ticks per second of the store's datetime text
MaxOrphans == 1    \* stored images without a record (their insert failed)

-----------------------------------------------------------------------------
(* JavaScript values: tagged so that values of different types compare *)

JsUndefined == [t |-> "undefined", v |-> 0]
JsNull == [t |-> "null", v |-> 0]
JsNaN == [t |-> "NaN", v |-> 0]
JsStr(s) == [t |-> "string", v |-> s]
JsNum(n) == [t |-> "number", v |-> n]
JsObj(o) == [t |-> "object", v |-> o]

\* JavaScript truthiness
Truthy(x) ==
  CASE x.t = "string" -> x.v # ""
    [] x.t = "number" -> x.v # 0
    [] x.t = "object" -> TRUE
    [] OTHER -> FALSE

\* a || b
OrElse(a, b) == IF Truthy(a) THEN a ELSE b

UpperAlpha == "ABCDEFGHIJKLMNOPQRSTUVWXYZ"
LowerAlpha == "abcdefghijklmnopqrstuvwxyz"
Digits == "0123456789"

CharAt(s, i) == SubSeq(s, i, i)

\* String.prototype.toLowerCase, one character
LowerChar(c) ==
  IF \E i \in 1..Len(UpperAlpha) : CharAt(UpperAlpha, i) = c
  THEN CharAt(LowerAlpha, CHOOSE i \in 1..Len(UpperAlpha) : CharAt(UpperAlpha, i) = c)
  ELSE c

RECURSIVE toLowerCase(_)
toLowerCase(s) ==
  IF s = "" THEN ""
  ELSE LowerChar(CharAt(s, 1)) \o toLowerCase(SubSeq(s, 2, Len(s)))

\* String.prototype.includes
includes(s, sub) ==
  \E i \in 0..(Len(s) - Len(sub)) : SubSeq(s, i + 1, i + Len(sub)) = sub

\* Number -> String (decimal), as string concatenation with a number does it
RECURSIVE NumToStr(_)
NumToStr(n) ==
  IF n < 10 THEN CharAt(Digits, n + 1)
  ELSE NumToStr(n \div 10) \o CharAt(Digits, (n % 10) + 1)

IsDigit(c) == \E d \in 1..10 : CharAt(Digits, d) = c

DigitVal(c) == (CHOOSE d \in 1..10 : CharAt(Digits, d) = c) - 1

IsDigits(s) == s # "" /\ \A i \in 1..Len(s) : IsDigit(CharAt(s, i))

RECURSIVE StrToNum(_)
StrToNum(s) ==
  IF s = "" THEN 0
  ELSE 10 * StrToNum(SubSeq(s, 1, Len(s) - 1)) + DigitVal(CharAt(s, Len(s)))

\* Number(str) on a form field: digit strings convert, other text is NaN
Number(x) == IF IsDigits(x.v) THEN JsNum(StrToNum(x.v)) ELSE JsNaN

\* path.extname(originalname)
RECURSIVE LastDot(_)
LastDot(s) ==
  IF s = "" THEN 0
  ELSE IF CharAt(s, Len(s)) = "." THEN Len(s)
  ELSE LastDot(SubSeq(s, 1, Len(s) - 1))

extname(s) == IF LastDot(s) <= 1 THEN "" ELSE SubSeq(s, LastDot(s), Len(s))

-----------------------------------------------------------------------------
(* Inputs *)

Req == 1..NumReq

NoFile == [originalname |-> "", content |-> 0]

\* multipart text fields
BodyAbsent ==
  [description |-> JsUndefined, category |-> JsUndefined,
   lat |-> JsUndefined, lon |-> JsUndefined]

BodyRoad ==
  [description |-> JsStr("pothole on Main St"), category |-> JsStr("Road"),
   lat |-> JsStr("12"), lon |-> JsStr("0")]

BodyOdd ==
  [description |-> JsStr(""), category |-> JsStr("Water"),
   lat |-> JsStr("abc"), lon |-> JsStr("")]

\* the multipart forms a client posts
Submissions ==
  { [file |-> NoFile, body |-> BodyAbsent],
    [file |-> NoFile, body |-> BodyRoad],
    [file |-> [originalname |-> "a.png", content |-> 1], body |-> BodyRoad],
    [file |-> [originalname |-> "b", content |-> 2], body |-> BodyOdd] }

\* outcomes of Math.random().toString(36).slice(2, 9)
Rands == { "k3x9a2b", "" }

\* JSON bodies posted to /api/chat
ChatMessages ==
  { "Hi there", "HELLO", "this is bad", "track my ticket", "status thanks",
    "Thank you so much", "Thanks, police!", "call the POLICE",
    "emergency! hey", "garbage on my road" }

ChatBodies ==
  { [message |-> JsStr(m), other |-> JsUndefined] : m \in ChatMessages } \cup
  { [message |-> JsUndefined, other |-> JsUndefined],
    [message |-> JsUndefined, other |-> JsStr("hello")],
    [message |-> JsStr(""), other |-> JsUndefined],
    [message |-> JsStr(""), other |-> JsStr("police")],
    [message |-> JsNull, other |-> JsUndefined] }

\* a candidates array holding one candidate whose first part has this text
Candidates(text) ==
  JsObj(<<[content |-> JsObj([parts |-> JsObj(<<[text |-> text]>>)])]>>)

\* JSON documents the model service answers with
GeminiData ==
  { [error |-> JsObj([code |-> JsNum(429), message |-> JsStr("Quota exceeded")]),
     candidates |-> JsUndefined],
    [error |-> JsObj([code |-> JsUndefined, message |-> JsStr("API key not valid")]),
     candidates |-> JsUndefined],
    [error |-> JsObj([code |-> JsNum(503), message |-> JsStr("")]),
     candidates |-> JsUndefined],
    [error |-> JsObj([code |-> JsNum(0), message |-> JsUndefined]),
     candidates |-> JsUndefined],
    [error |-> JsUndefined, candidates |-> Candidates(JsStr("Please upload a photo."))],
    [error |-> JsUndefined, candidates |-> Candidates(JsStr(""))],
    [error |-> JsUndefined, candidates |-> Candidates(JsUndefined)],
    [error |-> JsUndefined, candidates |-> JsObj(<<>>)],
    [error |-> JsUndefined,
     candidates |-> JsObj(<<[content |-> JsObj([parts |-> JsUndefined])]>>)],
    [error |-> JsUndefined, candidates |-> JsUndefined] }

-----------------------------------------------------------------------------
(* State *)

VARIABLES
  issues,           \* rows of table issues, in insertion (rowid) order
  sqlite_sequence,  \* AUTOINCREMENT high-water mark of table issues
  uploads,          \* files of UPLOAD_DIR: set of [name, content]
  clock,            \* wall clock in ticks (Date.now())
  tzShift,          \* current offset of local time, in seconds
  req,              \* the requests in flight, one per slot
  out               \* the request answered by the latest step, if any

vars == <<issues, sqlite_sequence, uploads, clock, tzShift, req, out>>

Idle ==
  [kind |-> "none", pc |-> "idle", file |-> JsUndefined, body |-> JsUndefined,
   runs |-> 0, err |-> FALSE, lastID |-> 0, fetches |-> 0, data |-> JsUndefined,
   sent |-> <<>>]

\* Date.now()
DateNow == clock

\* datetime('now','localtime'): the text 'YYYY-MM-DD HH:MM:SS' orders as the
\* local second it denotes, which is what is kept here
datetime_now_localtime == (clock \div TicksPerSecond) + tzShift

\* mutant of Respond: the response is sent twice
Respond_twice(rec, code, json) ==
  [rec EXCEPT !.sent = Append(Append(@, [status |-> code, body |-> json]),
                              [status |-> code, body |-> json]),
              !.pc = "done"]

\* res.status(code).json(body) by the request whose record is rec
Respond(rec, code, json) ==
  [rec EXCEPT !.sent = Append(@, [status |-> code, body |-> json]),
              !.pc = "done"]

\* an arriving request is taken into the lowest free slot (the slots are
\* interchangeable)
Accepts(r) ==
  /\ req[r].pc = "idle"
  /\ \A q \in 1..(r - 1) : req[q].pc # "idle"

\* slot r moves on without answering
Continue(r, rec) == req' = [req EXCEPT ![r] = rec] /\ out' = Idle

\* the request of slot r is answered and leaves the server
Finish(r, rec) == req' = [req EXCEPT ![r] = Idle] /\ out' = rec

Init ==
  /\ issues = <<>>
  /\ sqlite_sequence = 0
  /\ uploads = {}
  /\ clock = 0
  /\ tzShift \in {0, 1}
  /\ req = [r \in Req |-> Idle]
  /\ out = Idle

-----------------------------------------------------------------------------
(* Clock *)

Tick ==
  /\ clock < MaxClock
  /\ clock' = clock + 1
  /\ out' = Idle
  /\ UNCHANGED <<issues, sqlite_sequence, uploads, tzShift, req>>

\* local time is set back (end of daylight saving time)
LocalTimeSetBack ==
  /\ tzShift > 0
  /\ tzShift' = tzShift - 1
  /\ out' = Idle
  /\ UNCHANGED <<issues, sqlite_sequence, uploads, clock, req>>

-----------------------------------------------------------------------------
(* POST /api/report *)

\* multer diskStorage filename callback
filename(file, rnd) ==
  NumToStr(DateNow) \o "-" \o rnd \o extname(file.originalname)

\* diskStorage writes the file, replacing one of the same name
WriteUpload(name, content) ==
  {u \in uploads : u.name # name} \cup {[name |-> name, content |-> content]}

ReportsInFlight ==
  Cardinality({r \in Req : req[r].kind = "report" /\ req[r].pc = "run"})

\* upload.single("image"): a file part of field "image" is named and stored
\* and becomes req.file; without one nothing is stored and req.file stays
\* undefined
multer(f, rnd) ==
  IF f = NoFile THEN JsUndefined
  ELSE JsObj([filename |-> filename(f, rnd), originalname |-> f.originalname,
              content |-> f.content])

\* mutant of ReportHandler: the check tests req.body instead of req.file, so
\* an image-less submission reaches req.file.filename and throws (500)
ReportHandler_checksBody(r, file, body) ==
  LET rec == [Idle EXCEPT !.kind = "report", !.file = file, !.body = body]
  IN IF ~Truthy(body)
     THEN Finish(r, Respond(rec, 400, [error |-> "Image is required"]))
     ELSE IF ~Truthy(file)
     THEN Finish(r, Respond(rec, 500, [error |-> "Internal Server Error"]))
     ELSE Continue(r, [rec EXCEPT !.pc = "run"])

\* the handler body after multer: the image check, then prepare / run /
\* finalize, which queues the INSERT
ReportHandler(r, file, body) ==
  LET rec == [Idle EXCEPT !.kind = "report", !.file = file, !.body = body]
  IN IF ~Truthy(file)
     THEN Finish(r, Respond(rec, 400, [error |-> "Image is required"]))
     ELSE Continue(r, [rec EXCEPT !.pc = "run"])

\* a submission of subs arrives, Math.random() giving one of rands: multer,
\* then the handler
PostReportOf(r, subs, rands) ==
  /\ Accepts(r)
  /\ \E s \in subs, rnd \in rands :
       /\ s.file # NoFile =>
            /\ Len(issues) + ReportsInFlight < MaxIssues
            /\ Cardinality(uploads) < MaxIssues + MaxOrphans
       /\ s.file = NoFile => rnd = ""
       /\ uploads' = IF s.file = NoFile THEN uploads
                     ELSE WriteUpload(filename(s.file, rnd), s.file.content)
       /\ ReportHandler(r, multer(s.file, rnd), JsObj(s.body))
  /\ UNCHANGED <<issues, sqlite_sequence, clock, tzShift>>

PostReport(r) == PostReportOf(r, Submissions, Rands)

\* lat ? Number(lat) : null
NumberOrNull(x) == IF Truthy(x) THEN Number(x) ELSE JsNull

\* the values bound to the INSERT and the column defaults
NewRow(r, id) ==
  [id |-> id,
   filename |-> JsStr(req[r].file.v.filename),
   originalname |-> OrElse(JsStr(req[r].file.v.originalname), JsNull),
   description |-> OrElse(req[r].body.v.description, JsNull),
   category |-> OrElse(req[r].body.v.category, JsNull),
   lat |-> NumberOrNull(req[r].body.v.lat),
   lon |-> NumberOrNull(req[r].body.v.lon),
   created_at |-> datetime_now_localtime,
   status |-> "Pending"]

\* mutant of NextRowid: the high-water mark is not advanced past
NextRowid_notAdvanced == IF sqlite_sequence = 0 THEN 1 ELSE sqlite_sequence

\* INTEGER PRIMARY KEY AUTOINCREMENT
NextRowid == sqlite_sequence + 1

\* mutant of StmtRun: a rejected insert uses up an id
StmtRun_failureBurnsId(r) ==
  /\ req[r].kind = "report" /\ req[r].pc = "run"
  /\ \/ /\ issues' = Append(issues, NewRow(r, NextRowid))
        /\ sqlite_sequence' = NextRowid
        /\ Continue(r, [req[r] EXCEPT !.pc = "callback", !.runs = @ + 1,
                                      !.lastID = NextRowid])
     \/ /\ Continue(r, [req[r] EXCEPT !.pc = "callback", !.runs = @ + 1,
                                      !.err = TRUE])
        /\ sqlite_sequence' = NextRowid
        /\ UNCHANGED issues
  /\ UNCHANGED <<uploads, clock, tzShift>>

\* the statement executes in the database: the row is inserted and the
\* statement records its rowid, or the store rejects the insert
StmtRun(r) ==
  /\ req[r].kind = "report" /\ req[r].pc = "run"
  /\ \/ /\ issues' = Append(issues, NewRow(r, NextRowid))
        /\ sqlite_sequence' = NextRowid
        /\ Continue(r, [req[r] EXCEPT !.pc = "callback", !.runs = @ + 1,
                                      !.lastID = NextRowid])
     \/ /\ Continue(r, [req[r] EXCEPT !.pc = "callback", !.runs = @ + 1,
                                      !.err = TRUE])
        /\ UNCHANGED <<issues, sqlite_sequence>>
  /\ UNCHANGED <<uploads, clock, tzShift>>

\* mutant of lastID: the rowid of the connection's latest insert, read when
\* the callback runs
lastID_ofConnection(r) == sqlite_sequence

\* this.lastID in the run callback
lastID(r) == req[r].lastID

ticketIdOf(id) == "TC-" \o NumToStr(10000 + id)

\* mutant of RunCallback: a rejected insert is run once more
RunCallback_retries(r) ==
  /\ req[r].kind = "report" /\ req[r].pc = "callback"
  /\ IF req[r].err
     THEN IF req[r].runs < 2
          THEN Continue(r, [req[r] EXCEPT !.pc = "run", !.err = FALSE])
          ELSE Finish(r, Respond(req[r], 500, [error |-> "DB insert failed"]))
     ELSE Finish(r, Respond(req[r], 200,
                   [success |-> TRUE, id |-> lastID(r),
                    ticketId |-> ticketIdOf(lastID(r)),
                    imageUrl |-> "/uploads/" \o req[r].file.v.filename]))
  /\ UNCHANGED <<issues, sqlite_sequence, uploads, clock, tzShift>>

\* the run callback
RunCallback(r) ==
  /\ req[r].kind = "report" /\ req[r].pc = "callback"
  /\ IF req[r].err
     THEN Finish(r, Respond(req[r], 500, [error |-> "DB insert failed"]))
     ELSE Finish(r, Respond(req[r], 200,
                   [success |-> TRUE, id |-> lastID(r),
                    ticketId |-> ticketIdOf(lastID(r)),
                    imageUrl |-> "/uploads/" \o req[r].file.v.filename]))
  /\ UNCHANGED <<issues, sqlite_sequence, uploads, clock, tzShift>>

-----------------------------------------------------------------------------
(* GET /api/reports and GET /api/count *)

Perms(n) == {p \in [1..n -> 1..n] : \A i, j \in 1..n : i # j => p[i] # p[j]}

\* SELECT * FROM issues ORDER BY created_at DESC: the row orders the query may
\* produce.  Rows of equal created_at come in an order SQL leaves open.
OrderByCreatedAtDesc(rows) ==
  { [i \in 1..Len(rows) |-> rows[p[i]]] :
      p \in { q \in Perms(Len(rows)) :
                \A i \in 1..(Len(rows) - 1) :
                  rows[q[i]].created_at >= rows[q[i + 1]].created_at } }

\* mutant of CountStar: COUNT(description), which skips NULLs
CountStar_ofDescription(rows) ==
  Cardinality({k \in 1..Len(rows) : rows[k].description # JsNull})

\* SELECT COUNT(*) AS count FROM issues
CountStar(rows) == Len(rows)

\* mutant of GetReports: listing marks the records it returns as seen
GetReports_marksSeen(r) ==
  /\ Accepts(r)
  /\ LET rec == [Idle EXCEPT !.kind = "reports"]
     IN \/ Finish(r, Respond(rec, 500, [error |-> "DB error"])) /\ UNCHANGED issues
        \/ /\ \E rows \in OrderByCreatedAtDesc(issues) :
                Finish(r, Respond(rec, 200, JsObj(rows)))
           /\ issues' = [k \in 1..Len(issues) |-> [issues[k] EXCEPT !.status = "Seen"]]
  /\ UNCHANGED <<sqlite_sequence, uploads, clock, tzShift>>

\* the request arrives, db.all runs the query and its callback responds
GetReports(r) ==
  /\ Accepts(r)
  /\ LET rec == [Idle EXCEPT !.kind = "reports"]
     IN \/ Finish(r, Respond(rec, 500, [error |-> "DB error"]))
        \/ \E rows \in OrderByCreatedAtDesc(issues) :
             Finish(r, Respond(rec, 200, JsObj(rows)))
  /\ UNCHANGED <<issues, sqlite_sequence, uploads, clock, tzShift>>

\* the request arrives, db.get runs the query and its callback responds
GetCount(r) ==
  /\ Accepts(r)
  /\ LET rec == [Idle EXCEPT !.kind = "count"]
     IN \/ Finish(r, Respond(rec, 500, [error |-> "DB error"]))
        \/ Finish(r, Respond(rec, 200, [count |-> CountStar(issues)]))
  /\ UNCHANGED <<issues, sqlite_sequence, uploads, clock, tzShift>>

(* POST /api/chat *)

GreetingReply ==
  "(wave) Hello! I'm your Civic Assistant. How can I help you report an issue today?"

StatusReply ==
  "To check the status of a report, please use the **Admin Dashboard** link in the navigation bar. You will need the Ticket ID to track it!"

ThanksReply ==
  "You're very welcome! Thank you for helping keep our community clean and safe. Is there anything else I can assist with?"

EmergencyReply ==
  "(siren) **If this is an emergency, please call 100 immediately.** This platform is for non-urgent civic reports."

NoReplyText == "(warn) No reply received from the AI model."

getCustomReply(message) ==
  LET lowerMsg == toLowerCase(message)
  IN IF includes(lowerMsg, "hello") \/ includes(lowerMsg, "hi") \/ includes(lowerMsg, "hey")
     THEN JsStr(GreetingReply)
     ELSE IF includes(lowerMsg, "status") \/ includes(lowerMsg, "track")
     THEN JsStr(StatusReply)
     ELSE IF includes(lowerMsg, "thank you") \/ includes(lowerMsg, "thanks")
     THEN JsStr(ThanksReply)
     ELSE IF includes(lowerMsg, "emergency") \/ includes(lowerMsg, "police")
     THEN JsStr(EmergencyReply)
     ELSE JsNull

\* x?.field
OptField(x, field) ==
  IF x.t \in {"undefined", "null"} THEN JsUndefined ELSE x.v[field]

\* x?.[0]
OptFirst(x) ==
  IF x.t \in {"undefined", "null"} \/ Len(x.v) = 0 THEN JsUndefined
  ELSE JsObj(x.v[1])

\* mutant of MessageMissing: only an absent message is refused
MessageMissing_onlyUndefined(message) == message = JsUndefined

\* !message
MessageMissing(message) == ~Truthy(message)

\* a request with a body of bodies arrives; the handler runs up to the await
\* of fetch
PostChatOf(r, bodies) ==
  /\ Accepts(r)
  /\ \E b \in bodies :
       LET rec == [Idle EXCEPT !.kind = "chat", !.body = JsObj(b)]
       IN IF MessageMissing(b.message)
          THEN Finish(r, Respond(rec, 400, [error |-> "Message required"]))
          ELSE Continue(r, [rec EXCEPT !.pc = "fetch", !.fetches = @ + 1])
  /\ UNCHANGED <<issues, sqlite_sequence, uploads, clock, tzShift>>

PostChat(r) == PostChatOf(r, ChatBodies)

\* mutant of FetchRejects: a failed call is issued once more before giving up
FetchRejects_retries(r) ==
  /\ req[r].kind = "chat" /\ req[r].pc = "fetch"
  /\ IF req[r].fetches < 2
     THEN Continue(r, [req[r] EXCEPT !.fetches = @ + 1])
     ELSE Finish(r, Respond(req[r], 500, [error |-> "Failed to connect to Gemini API."]))
  /\ UNCHANGED <<issues, sqlite_sequence, uploads, clock, tzShift>>

\* fetch or geminiRes.json() throws: the catch block
FetchRejects(r) ==
  /\ req[r].kind = "chat" /\ req[r].pc = "fetch"
  /\ Finish(r, Respond(req[r], 500, [error |-> "Failed to connect to Gemini API."]))
  /\ UNCHANGED <<issues, sqlite_sequence, uploads, clock, tzShift>>

\* mutant of ErrorStatus: every model error is answered 500
ErrorStatus_always500(error) == 500

\* data.error.code || 500
ErrorStatus(error) == OrElse(error.v.code, JsNum(500)).v

\* data.error.message || "Gemini API request failed."
ErrorMessage(error) == OrElse(error.v.message, JsStr("Gemini API request failed.")).v

\* mutant of ReplyOf: a missing text falls back to the empty string
ReplyOf_emptyFallback(data) ==
  OrElse(OptField(OptFirst(OptField(OptField(OptFirst(data.candidates),
                                             "content"), "parts")), "text"),
         JsStr("")).v

\* data.candidates?.[0]?.content?.parts?.[0]?.text || "... No reply ..."
ReplyOf(data) ==
  OrElse(OptField(OptFirst(OptField(OptField(OptFirst(data.candidates),
                                             "content"), "parts")), "text"),
         JsStr(NoReplyText)).v

\* the model service answers with a JSON document of datas
FetchResolvesOf(r, datas) ==
  /\ req[r].kind = "chat" /\ req[r].pc = "fetch"
  /\ \E data \in datas :
       LET rec == [req[r] EXCEPT !.data = JsObj(data)]
       IN IF Truthy(data.error)
          THEN Finish(r, Respond(rec, ErrorStatus(data.error),
                                 [error |-> ErrorMessage(data.error)]))
          ELSE Finish(r, Respond(rec, 200, [reply |-> ReplyOf(data)]))
  /\ UNCHANGED <<issues, sqlite_sequence, uploads, clock, tzShift>>

FetchResolves(r) == FetchResolvesOf(r, GeminiData)

-----------------------------------------------------------------------------

-----------------------------------------------------------------------------

Next ==
  \/ Tick
  \/ LocalTimeSetBack
  \/ \E r \in Req : PostReport(r)
  \/ \E r \in Req : StmtRun(r)
  \/ \E r \in Req : RunCallback(r)
  \/ \E r \in Req : GetReports(r)
  \/ \E r \in Req : GetCount(r)

Spec == Init /\ [][Next]_vars

\* the chat endpoint, which shares no state with the other endpoints
NextChat ==
  \/ \E r \in Req : PostChat(r)
  \/ \E r \in Req : FetchRejects(r)
  \/ \E r \in Req : FetchResolves(r)

SpecChat == Init /\ [][NextChat]_vars

\* all endpoints of the server together, on fewer request bodies and model
\* answers
ServerSubmissions ==
  { [file |-> NoFile, body |-> BodyRoad],
    [file |-> [originalname |-> "a.png", content |-> 1], body |-> BodyRoad] }

ServerChatBodies ==
  { [message |-> JsUndefined, other |-> JsUndefined],
    [message |-> JsStr("garbage on my road"), other |-> JsUndefined] }

ServerGeminiData ==
  { [error |-> JsObj([code |-> JsNum(429), message |-> JsStr("Quota exceeded")]),
     candidates |-> JsUndefined],
    [error |-> JsUndefined, candidates |-> Candidates(JsStr("Please upload a photo."))] }

NextServer ==
  \/ Tick
  \/ LocalTimeSetBack
  \/ \E r \in Req : PostReportOf(r, ServerSubmissions, {""})
  \/ \E r \in Req : StmtRun(r)
  \/ \E r \in Req : RunCallback(r)
  \/ \E r \in Req : GetReports(r)
  \/ \E r \in Req : GetCount(r)
  \/ \E r \in Req : PostChatOf(r, ServerChatBodies)
  \/ \E r \in Req : FetchRejects(r)
  \/ \E r \in Req : FetchResolvesOf(r, ServerGeminiData)

SpecServer == Init /\ [][NextServer]_vars

\* the database runs every queued statement and calls back, and every call
\* of the model service completes or fails
FairSpecServer ==
  /\ SpecServer
  /\ \A r \in Req :
       /\ WF_<<req[r].pc>>(StmtRun(r))
       /\ WF_<<req[r].pc>>(RunCallback(r))
       /\ WF_<<req[r].pc>>(FetchRejects(r) \/ FetchResolvesOf(r, ServerGeminiData))

-----------------------------------------------------------------------------
(* Properties of the intake and query endpoints *)

\* the requests the state holds: those in flight and the one just answered
Requests == {req[r] : r \in Req} \cup {out}

Answered(kind) == out.kind = kind /\ out.pc = "done"

\* the one response of the request just answered
Response == out.sent[1]

Succeeded(kind) == Answered(kind) /\ Response.status = 200

\* text is the canonical decimal numeral of n
IsDecimalOf(text, n) ==
  /\ IsDigits(text)
  /\ (Len(text) > 1 => CharAt(text, 1) # "0")
  /\ StrToNum(text) = n

\* the row of id `id` holds what the submission x submitted
RowOfRequest(x, id) ==
  \E k \in 1..Len(issues) :
    /\ issues[k].id = id
    /\ issues[k].filename = JsStr(x.file.v.filename)
    /\ issues[k].originalname = JsStr(x.file.v.originalname)
    /\ issues[k].description = OrElse(x.body.v.description, JsNull)
    /\ issues[k].category = OrElse(x.body.v.category, JsNull)

\* C1: every successful submission returns ticketId = "TC-" followed by the
\* decimal numeral of 10000 + id, where id is the id returned in the same
\* response and is the rowid of the record this request's statement inserted.
C1_TicketIdFromOwnId ==
  Succeeded("report") =>
    LET b == Response.body
    IN /\ SubSeq(b.ticketId, 1, 3) = "TC-"
       /\ IsDecimalOf(SubSeq(b.ticketId, 4, Len(b.ticketId)), 10000 + b.id)
       /\ b.id = out.lastID
       /\ RowOfRequest(out, b.id)

\* a submission has succeeded although a later insert of another submission
\* ran before its callback
C1_Witness ==
  /\ Succeeded("report")
  /\ Response.body.id < sqlite_sequence
  /\ Response.body.ticketId = "TC-10001"

\* C2: the ids of the stored issues are strictly increasing in insertion
\* order (hence pairwise distinct), no two stored issues share a ticketId,
\* and the ids given to distinct submissions whose insert succeeded differ.
C2_IdsStrictlyIncreasing ==
  /\ \A i, j \in 1..Len(issues) :
       i < j => /\ issues[i].id < issues[j].id
                /\ ticketIdOf(issues[i].id) # ticketIdOf(issues[j].id)
  /\ \A r \in Req :
       (req[r].pc = "callback" /\ ~req[r].err) =>
         /\ \E k \in 1..Len(issues) : issues[k].id = req[r].lastID
         /\ \A q \in Req \ {r} :
              (req[q].pc = "callback" /\ ~req[q].err) => req[q].lastID # req[r].lastID
         /\ Succeeded("report") => Response.body.id # req[r].lastID

\* a submission is answered with its id while another one, inserted
\* concurrently, waits for its callback
C2_Witness ==
  /\ Len(issues) >= 2
  /\ Succeeded("report")
  /\ \E r \in Req : req[r].pc = "callback" /\ ~req[r].err

\* C3: a submission without an image is answered 400 "Image is required" in
\* the step that handles it, whatever its other fields, and that step leaves
\* the table, its id sequence and the uploads directory unchanged.
C3_NoImageRejected ==
  [][ (out'.kind = "report" /\ ~Truthy(out'.file)) =>
        /\ out'.sent = <<[status |-> 400, body |-> [error |-> "Image is required"]]>>
        /\ issues' = issues
        /\ sqlite_sequence' = sqlite_sequence
        /\ uploads' = uploads ]_vars

\* a submission with text fields but no image was rejected while the stores
\* held earlier submissions
C3_Witness ==
  /\ Answered("report") /\ ~Truthy(out.file)
  /\ out.body = JsObj(BodyRoad)
  /\ Response.status = 400
  /\ Len(issues) > 0 /\ uploads # {}

\* C4: listIssues returns all stored records ordered by created_at
\* descending, records of equal created_at in id-descending order.
C4_ListOrderedTiesByIdDesc ==
  Succeeded("reports") =>
    LET rows == Response.body.v
    IN /\ Len(rows) = Len(issues)
       /\ \A k \in 1..Len(issues) : \E i \in 1..Len(rows) : rows[i] = issues[k]
       /\ \A i \in 1..(Len(rows) - 1) :
            \/ rows[i].created_at > rows[i + 1].created_at
            \/ /\ rows[i].created_at = rows[i + 1].created_at
               /\ rows[i].id > rows[i + 1].id

\* C5: countIssues returns the number of records of the store state it read,
\* which is the length of every result listIssues may return from that state.
C5_CountIsListLength ==
  /\ \A rows \in OrderByCreatedAtDesc(issues) : CountStar(issues) = Len(rows)
  /\ Succeeded("count") =>
       /\ Response.body.count = Len(issues)
       /\ \A rows \in OrderByCreatedAtDesc(issues) : Len(rows) = Response.body.count
  /\ Succeeded("reports") => Len(Response.body.v) = CountStar(issues)

\* a count answered from a store that holds a record without description
C5_Witness ==
  /\ Succeeded("count")
  /\ Response.body.count >= 2
  /\ \E k \in 1..Len(issues) : issues[k].description = JsNull

-----------------------------------------------------------------------------
(* Properties of the chat endpoint *)

\* the message of chat request x is text
HasTextMessage(x) == x.kind = "chat" /\ x.body.v.message.t = "string"

LowerMessage(x) == toLowerCase(x.body.v.message.v)

ContainsAny(text, keywords) == \E k \in keywords : includes(text, k)

\* the keyword groups in their priority order, each with its fixed reply
KeywordGroups ==
  << [keywords |-> {"hello", "hi", "hey"}, reply |-> GreetingReply],
     [keywords |-> {"status", "track"}, reply |-> StatusReply],
     [keywords |-> {"thank you", "thanks"}, reply |-> ThanksReply],
     [keywords |-> {"emergency", "police"}, reply |-> EmergencyReply] >>

MatchesGroup(x, g) == ContainsAny(LowerMessage(x), KeywordGroups[g].keywords)

\* C6: a chat message whose case-folded text contains "hello", "hi" or "hey"
\* is answered with exactly the greeting text, and no call to the model is
\* made for that request.
C6_GreetingWithoutModelCall ==
  \A x \in Requests :
    (HasTextMessage(x) /\ MatchesGroup(x, 1)) =>
      /\ x.fetches = 0
      /\ x.sent = <<[status |-> 200, body |-> [reply |-> GreetingReply]]>>

\* C7: the reply to a chat message is the fixed reply of the earliest keyword
\* group that has a keyword contained in the case-folded message.
C7_FirstMatchWins ==
  (Answered("chat") /\ HasTextMessage(out)) =>
    \A g \in 1..Len(KeywordGroups) :
      (MatchesGroup(out, g) /\ \A e \in 1..(g - 1) : ~MatchesGroup(out, e)) =>
        Response = [status |-> 200, body |-> [reply |-> KeywordGroups[g].reply]]

\* C8: the model is called only for messages that match no keyword group.
C8_ModelCallOnlyWithoutMatch ==
  \A x \in Requests :
    (HasTextMessage(x) /\ x.fetches > 0) =>
      getCustomReply(x.body.v.message.v) = JsNull

\* C9: a chat request whose message is the empty string or missing is
\* answered 400 "Message required", whatever else its body holds, and no
\* call to the model is ever made for it.
C9_MissingMessageRejected ==
  \A x \in Requests :
    (x.kind = "chat" /\ x.body.v.message \in {JsUndefined, JsStr("")}) =>
      /\ x.fetches = 0
      /\ x.sent = <<[status |-> 400, body |-> [error |-> "Message required"]]>>

\* an empty message was refused although the body carried another field
C9_Witness ==
  /\ Answered("chat")
  /\ out.body.v = [message |-> JsStr(""), other |-> JsStr("police")]
  /\ Response.status = 400
  /\ \E r \in Req : req[r].pc = "fetch"

\* the model call of the chat request just answered completed with a
\* response carrying an error
ModelAnsweredError ==
  Answered("chat") /\ Truthy(out.data) /\ Truthy(out.data.v.error)

\* C10 as stated: the request fails with the error's own status code and the
\* error's own message, unchanged.
C10_ErrorPassedThroughVerbatim ==
  ModelAnsweredError =>
    /\ JsNum(Response.status) = out.data.v.error.v.code
    /\ JsStr(Response.body.error) = out.data.v.error.v.message

\* C10 amended: the status is the error's code when it is present and not 0,
\* otherwise 500; the text is the error's message when it is present and not
\* empty, otherwise "Gemini API request failed."; the response is never a
\* reply and never the connectivity error.
C10_ErrorPassedThroughOrDefault ==
  ModelAnsweredError =>
    LET e == out.data.v.error.v
    IN /\ Response.status =
            (IF e.code.t = "number" /\ e.code.v # 0 THEN e.code.v ELSE 500)
       /\ DOMAIN Response.body = {"error"}
       /\ Response.body.error =
            (IF e.message.t = "string" /\ e.message.v # "" THEN e.message.v
             ELSE "Gemini API request failed.")
       /\ Response.body.error # "Failed to connect to Gemini API."

\* a model error with code and message was passed through
C10_Witness ==
  /\ ModelAnsweredError
  /\ out.data.v.error.v.code = JsNum(429)
  /\ Response = [status |-> 429, body |-> [error |-> "Quota exceeded"]]

\* the model call of the chat request just answered completed with a
\* response carrying no error
ModelAnsweredNoError ==
  Answered("chat") /\ Truthy(out.data) /\ ~Truthy(out.data.v.error)

\* the document d has the nested shape candidates[0].content.parts[0].text
HasTextField(d) ==
  /\ d.candidates.t = "object" /\ Len(d.candidates.v) > 0
  /\ d.candidates.v[1].content.t = "object"
  /\ d.candidates.v[1].content.v.parts.t = "object"
  /\ Len(d.candidates.v[1].content.v.parts.v) > 0
  /\ d.candidates.v[1].content.v.parts.v[1].text.t = "string"

TextField(d) == d.candidates.v[1].content.v.parts.v[1].text.v

\* C11 as stated: without an error the request succeeds; its reply is the
\* placeholder when the text field is absent and exactly the text when the
\* field is present.
C11_ReplyIsTextWhenPresent ==
  ModelAnsweredNoError =>
    /\ Response.status = 200
    /\ DOMAIN Response.body = {"reply"}
    /\ Response.body.reply =
         (IF HasTextField(out.data.v) THEN TextField(out.data.v) ELSE NoReplyText)

\* C11 amended: the reply is exactly the text when the field is present and
\* not empty; it is the placeholder when the field is absent or empty.
C11_ReplyIsTextWhenNonEmpty ==
  ModelAnsweredNoError =>
    /\ Response.status = 200
    /\ DOMAIN Response.body = {"reply"}
    /\ Response.body.reply =
         (IF HasTextField(out.data.v) /\ TextField(out.data.v) # ""
          THEN TextField(out.data.v) ELSE NoReplyText)

\* a document whose first candidate has no parts was answered with the
\* placeholder
C11_Witness ==
  /\ ModelAnsweredNoError
  /\ out.data.v.candidates.t = "object" /\ Len(out.data.v.candidates.v) > 0
  /\ ~HasTextField(out.data.v)
  /\ Response = [status |-> 200, body |-> [reply |-> NoReplyText]]

\* C12: when the model call of a chat request cannot complete, that request
\* is answered 500 with the body {error: "Failed to connect to Gemini API."};
\* no request ever makes more than one model call; and the step leaves every
\* other request in flight as it was and frees the slot for the next request.
C12_UnavailableNoRetry ==
  [][ /\ \A x \in {req'[r] : r \in Req} \cup {out'} : x.fetches <= 1
      /\ \A r \in Req :
           (req[r].pc = "fetch" /\ req'[r] # req[r] /\ ~Truthy(out'.data)) =>
             /\ out'.body = req[r].body
             /\ out'.sent = <<[status |-> 500,
                               body |-> [error |-> "Failed to connect to Gemini API."]]>>
             /\ req'[r] = Idle
             /\ \A q \in Req \ {r} : req'[q] = req[q] ]_vars

\* a chat request was answered 500 after its one model call failed, while
\* another chat request is waiting for the model
C12_Witness ==
  /\ Answered("chat") /\ out.fetches = 1 /\ ~Truthy(out.data)
  /\ Response.status = 500
  /\ \E r \in Req : req[r].pc = "fetch"

\* C13: when the store rejects the insert of a submission, neither that step
\* nor the callback after it adds a record or advances the id sequence; the
\* callback answers 500 with the body {error: "DB insert failed"} only (no id,
\* no ticketId), after exactly one run of the statement, and the request
\* leaves the server.
C13_RejectedInsertFailsOnce ==
  [][ \A r \in Req :
        /\ (req[r].pc = "run" /\ req'[r].err) =>
             /\ issues' = issues /\ sqlite_sequence' = sqlite_sequence
             /\ req'[r].runs = 1 /\ req'[r].sent = <<>>
        /\ (req[r].pc = "callback" /\ req[r].err /\ req'[r] # req[r]) =>
             /\ issues' = issues /\ sqlite_sequence' = sqlite_sequence
             /\ req'[r] = Idle
             /\ out'.file = req[r].file /\ out'.runs = 1
             /\ out'.sent = <<[status |-> 500,
                               body |-> [error |-> "DB insert failed"]]>> ]_vars

\* a submission with an image was answered 500 after its insert was rejected,
\* while the store holds a record of an earlier submission
C13_Witness ==
  /\ Answered("report") /\ out.err /\ Truthy(out.file)
  /\ Response.status = 500
  /\ Len(issues) > 0

\* C14: a listIssues answered when every submission has completed returns
\* the record of the latest successful submission as its first element.
\* (Failed submissions leave the store as it was, so the rows a list can
\* return do not depend on whether one came in between.)
C14_LatestRecordListedFirst ==
  ( /\ Succeeded("reports")
    /\ Len(issues) > 0
    /\ \A r \in Req : req[r].kind # "report" ) =>
      Response.body.v[1] = issues[Len(issues)]

\* the number a ticketId ends with
TicketNo(ticketId) == StrToNum(SubSeq(ticketId, 4, Len(ticketId)))

\* the files of the upload directory no record names
Orphans == {u \in uploads : \A k \in 1..Len(issues) : issues[k].filename # JsStr(u.name)}

\* C15: the ids of records inserted one after the other differ by exactly 1,
\* whatever failed in between; a successful submission returns the id of its
\* own record, so its id and the number of its ticketId are 1 more than those
\* returned for the record inserted just before.
C15_SequentialIdsDifferByOne ==
  /\ \A k \in 1..(Len(issues) - 1) : issues[k + 1].id - issues[k].id = 1
  /\ Succeeded("report") =>
       LET b == Response.body
       IN /\ \E k \in 1..Len(issues) : issues[k].id = b.id
          /\ \A k \in 2..Len(issues) :
               issues[k].id = b.id =>
                 /\ b.id - issues[k - 1].id = 1
                 /\ TicketNo(b.ticketId)
                      - TicketNo(ticketIdOf(issues[k - 1].id)) = 1

\* the second successful submission is answered; it arrived at tick 2, the
\* first at tick 0, and a submission of tick 1 stored its image but has no
\* record (its insert was rejected)
C15_Witness ==
  /\ Succeeded("report")
  /\ Len(issues) = 2 /\ Response.body.id = issues[2].id
  /\ SubSeq(issues[1].filename.v, 1, 2) = "0-"
  /\ SubSeq(issues[2].filename.v, 1, 2) = "2-"
  /\ \E u \in Orphans : SubSeq(u.name, 1, 2) = "1-"
  /\ \A r \in Req : req[r].pc = "idle"

\* the submissions in flight that carry an image
ReportSlots == {r \in Req : req[r].kind = "report" /\ req[r].pc \in {"run", "callback"}}

\* C16: once the insert of a submission is issued its image is in the upload
\* directory under the request's filename; the record it inserts and the
\* imageUrl it returns carry that filename; and the filename is not the
\* filename of another submission in flight.
C16_OwnStorageKey ==
  /\ \A r \in ReportSlots :
       /\ \E u \in uploads : u.name = req[r].file.v.filename
       /\ (req[r].pc = "callback" /\ ~req[r].err) =>
            RowOfRequest(req[r], req[r].lastID)
  /\ Succeeded("report") =>
       Response.body.imageUrl = "/uploads/" \o out.file.v.filename
  /\ \A r, q \in ReportSlots :
       r # q => req[r].file.v.filename # req[q].file.v.filename

\* C17: created_at is non-decreasing with id: of two stored records, the one
\* of the smaller id has the created_at that is not later.
C17_CreatedAtNonDecreasingWithId ==
  \A i, j \in 1..Len(issues) :
    issues[i].id < issues[j].id => issues[i].created_at <= issues[j].created_at

\* C18: every stored record has a non-empty filename that names a file of
\* the upload directory, and once no submission is in flight the directory
\* holds as many files as the table holds records.
C18_OneMediaObjectPerRecord ==
  /\ \A k \in 1..Len(issues) :
       /\ issues[k].filename.t = "string" /\ issues[k].filename.v # ""
       /\ \E u \in uploads : JsStr(u.name) = issues[k].filename
  /\ ReportSlots = {} => Cardinality(uploads) = Len(issues)

-----------------------------------------------------------------------------
(* Properties of the server as a whole *)

\* the kinds of the requests a step handles: the one it answers and those it
\* takes in or moves on
StepKinds ==
  ({out'.kind} \cup {req'[r].kind : r \in {q \in Req : req'[q] # req[q]}})
    \ {"none"}

\* C19: a step of a list, count or chat request leaves the table, its id
\* sequence and the upload directory as they were; every step keeps every
\* stored record as it is and in its place (the table only grows at its end,
\* by at most one record), and every record has status Pending.
C19_QueriesAndChatChangeNothing ==
  [][ /\ (StepKinds \cap {"reports", "count", "chat"} # {}) =>
           /\ issues' = issues
           /\ sqlite_sequence' = sqlite_sequence
           /\ uploads' = uploads
      /\ Len(issues') \in {Len(issues), Len(issues) + 1}
      /\ \A k \in 1..Len(issues) : issues'[k] = issues[k]
      /\ \A k \in 1..Len(issues') : issues'[k].status = "Pending" ]_vars

\* a chat request was answered by the model while the table holds records,
\* the upload directory holds files and a submission is in flight
C19_Witness ==
  /\ Succeeded("chat")
  /\ Len(issues) > 0 /\ uploads # {}
  /\ ReportSlots # {}

\* C20: every request is answered exactly once: a request in flight has sent
\* nothing, and a request leaves the server in the step that sends its one
\* response; every step belongs to one request and leaves the others in
\* flight as they were, and a step that answers with a failure leaves the
\* table as it was, so it changes no other request's response; and every
\* request in flight is eventually answered, given that the database calls
\* back and the model call completes or fails.
C20_ExactlyOneResponse ==
  /\ [](/\ \A r \in Req : req[r].sent = <<>> /\ req[r].pc # "done"
        /\ out.kind # "none" => (out.pc = "done" /\ Len(out.sent) = 1))
  /\ [][ /\ \A r \in Req :
              /\ req'[r] # req[r] => \A q \in Req \ {r} : req'[q] = req[q]
              /\ (req[r].pc # "idle" /\ req'[r].pc = "idle") =>
                   /\ out'.kind = req[r].kind
                   /\ out'.file = req[r].file /\ out'.body = req[r].body
                   /\ Len(out'.sent) = 1
         /\ (out'.kind # "none" /\ out'.sent[1].status >= 400) =>
              (issues' = issues /\ sqlite_sequence' = sqlite_sequence) ]_vars
  /\ \A r \in Req : (req[r].pc # "idle") ~> (req[r].pc = "idle")

\* a submission was answered with a failure while a chat request waits for
\* the model service
C20_Witness ==
  /\ Answered("report") /\ Response.status = 500
  /\ \E r \in Req : req[r].kind = "chat" /\ req[r].pc = "fetch"

====
